---- MODULE Spec2Model ----
(***************************************************************************)
(* Model of vlaunch: the root command (cmd/root.go) driving one            *)
(* vm.VirtualMachine (NewVM, Start, Run, Stop, Release), and the two       *)
(* monitor loops Run chooses between, passiveListenerLoop and pollingLoop. *)
(* The hypervisor (vbox) is the environment: every call into it returns    *)
(* one of the results the binding can return, chosen nondeterministically. *)
(***************************************************************************)
EXTENDS Integers, Sequences, FiniteSets, TLC

(* ---------------- bounds of the model ---------------- *)
MaxHandlers == 2     \* registrations made before Run
MaxProps == 2        \* length of one EnumerateGuestProperties result
MaxQueries == 3      \* machine.GetState calls made by pollingLoop
MaxEvents == 2       \* non-nil events delivered by GetEvent
MaxTimeouts == 2     \* nil results of GetEvent

(* ---------------- domains ---------------- *)
Handlers == {"A", "B"}
Keys == {"env", "ver"}
Values == {"", "prod"}
Timestamps == {0, 1}
FlagSet == {"", "RDONLY"}
MachineStates == {"PoweredOff", "Running"}
(* interestingEvents, the kinds the listener is registered for *)
interestingEvents ==
    {"OnMachineStateChanged", "OnStateChanged", "MachineEvent",
     "OnSessionStateChanged", "OnGuestPropertyChanged"}

(* vbox.GuestProperty; the enumerated properties carry a timestamp and flags that *)
(* vary together, so that a property has four shapes per name                   *)
GuestProperty ==
    {p \in [Name : Keys, Value : Values, Timestamp : Timestamps, Flags : FlagSet] :
        (p.Timestamp = 0) <=> (p.Flags = "")}
NoProp == [Name |-> "", Value |-> "", Timestamp |-> 0, Flags |-> ""]
NoCall == [h |-> "", name |-> "", value |-> "", timestamp |-> 0, flags |-> ""]

SeqsUpTo(S, n) == UNION {[1..k -> S] : k \in 0..n}

(* map[string]vbox.GuestProperty: a function whose domain is the key set *)
EmptyMap == [k \in {} |-> NoProp]
MapPut(m, k, v) == [x \in (DOMAIN m) \cup {k} |-> IF x = k THEN v ELSE m[x]]

(* getPropertyMap: m[prop.Name] = prop for each enumerated property, in order *)
RECURSIVE getPropertyMapFrom(_, _, _)
getPropertyMapFrom(m, props, i) ==
    IF i > Len(props) THEN m
    ELSE getPropertyMapFrom(MapPut(m, props[i].Name, props[i]), props, i + 1)
getPropertyMap(props) == getPropertyMapFrom(EmptyMap, props, 1)

(* the arguments of one handler.OnGuestPropertyChanged call *)
Call(h, n, v, t, f) == [h |-> h, name |-> n, value |-> v, timestamp |-> t, flags |-> f]

VARIABLES
    keepVM,                 \* --keep
    isAdmin,                \* backend.IsAdmin()
    SupportPassiveListener, \* backend.SupportPassiveListener
    rootPc,                 \* position of RootCmd.Run
    panicMsg,               \* the message of the panic in flight, "" if none
    created,                \* vm.machine was set by Create
    console,                \* vm.console was set by Start
    sessionLocked,          \* the session holds the machine lock
    eventHandlers,          \* vm.eventHandlers
    registering,            \* the handler a concurrent RegisterEventHandler is appending, or ""
    wg,                     \* Run's sync.WaitGroup counter
    err,                    \* Run's named result
    runRet,                 \* what Run returned to the root command
    pc,                     \* position of the monitor goroutine
    loopRet,                \* what the loop returned
    previousState, previousProperties, properties, state,
    todo,                   \* keys the running range over a map has not visited
    ranged, hidx, cur,      \* range over vm.eventHandlers: slice, next index, arguments
    defers,                 \* passiveListenerLoop's deferred calls, last pushed last
    event,                  \* the event GetEvent returned, "nil" if none
    (* observations of the run *)
    notified,               \* handler calls of the current iteration / event
    queries,                \* results of the GetState calls of pollingLoop
    goroutines,             \* loops entered by monitor goroutines
    hvCalls,                \* hypervisor calls made for the current event
    events, timeouts,       \* delivered events, nil results
    relCalls,               \* calls made by Release
    relRet,                 \* what Release returned: the call that failed, or nil
    createRet,              \* what Create returned: the call that failed, or nil
    registered,             \* the machine built by Create is registered
    provLocked              \* the session opened by Create holds the lock

vars == <<keepVM, isAdmin, SupportPassiveListener, rootPc, panicMsg, created, console,
          sessionLocked, eventHandlers, registering, wg, err, runRet, pc, loopRet,
          previousState, previousProperties, properties, state, todo, ranged, hidx, cur,
          defers, event, notified, queries, goroutines, hvCalls, events,
          timeouts, relCalls, relRet, createRet, registered, provLocked>>

rootVars == <<rootPc, panicMsg, created, console, sessionLocked, wg, runRet, relCalls,
              relRet, createRet, registered, provLocked>>
flagVars == <<keepVM, isAdmin, SupportPassiveListener>>
pollVars == <<previousState, previousProperties, properties, state, todo, queries>>
fanVars == <<ranged, hidx, cur>>
evtVars == <<defers, event, hvCalls, events, timeouts>>

Init ==
    /\ keepVM \in BOOLEAN
    /\ isAdmin \in BOOLEAN
    /\ SupportPassiveListener \in BOOLEAN
    /\ rootPc = "main"
    /\ panicMsg = ""
    /\ created = FALSE
    /\ console = FALSE
    /\ sessionLocked = FALSE
    /\ eventHandlers = <<>>
    /\ registering = ""
    /\ wg = 0
    /\ err = "nil"
    /\ runRet = "none"
    /\ pc = "idle"
    /\ loopRet = "none"
    /\ previousState = "none"
    /\ previousProperties = EmptyMap
    /\ properties = EmptyMap
    /\ state = "none"
    /\ todo = {}
    /\ ranged = <<>>
    /\ hidx = 1
    /\ cur = NoCall
    /\ defers = <<>>
    /\ event = "nil"
    /\ notified = <<>>
    /\ queries = <<>>
    /\ goroutines = <<>>
    /\ hvCalls = <<>>
    /\ events = 0
    /\ timeouts = 0
    /\ relCalls = <<>>
    /\ relRet = "none"
    /\ createRet = "none"
    /\ registered = FALSE
    /\ provLocked = FALSE

(* ---------------- VirtualMachine.RegisterEventHandler ---------------- *)
RegisterEventHandler(handler) ==
    /\ pc = "idle"
    /\ rootPc \in {"start", "run"}
    /\ Len(eventHandlers) < MaxHandlers
    /\ eventHandlers' = Append(eventHandlers, handler)
    /\ UNCHANGED <<flagVars, registering, rootVars, err, pc, loopRet, pollVars, fanVars,
                   evtVars, notified, goroutines>>

(* RegisterEventHandler called from another goroutine while Run waits for *)
(* the monitor: the append reads the slice, then stores the longer one    *)
RaceRegisterBegin(handler) ==
    /\ rootPc = "wait"
    /\ registering = ""
    /\ Len(eventHandlers) < MaxHandlers
    /\ registering' = handler
    /\ UNCHANGED <<flagVars, rootVars, eventHandlers, err, pc, loopRet, pollVars, fanVars,
                   evtVars, notified, goroutines>>

RaceRegisterEnd ==
    /\ registering # ""
    /\ eventHandlers' = Append(eventHandlers, registering)
    /\ registering' = ""
    /\ UNCHANGED <<flagVars, rootVars, err, pc, loopRet, pollVars, fanVars, evtVars,
                   notified, goroutines>>

(* ---------------- RootCmd.Run ---------------- *)
(* not privileged: re-run the executable as root and return *)
RootElevate ==
    /\ rootPc = "main"
    /\ ~isAdmin
    /\ \E ok \in BOOLEAN :
         /\ rootPc' = IF ok THEN "exited" ELSE "panicked"
         /\ panicMsg' = IF ok THEN "" ELSE "Failed to run as root"
    /\ UNCHANGED <<flagVars, registering, created, console, sessionLocked, eventHandlers,
                   wg, err, runRet, pc, loopRet, pollVars, fanVars, evtVars, notified,
                   goroutines, relCalls, relRet, createRet, registered, provLocked>>

(* vm.NewVM() returns an empty VirtualMachine and no error; Release is deferred. *)
(* The root command goes on to Start: it has no call of vm.Create.            *)
RootNewVM ==
    /\ rootPc = "main"
    /\ isAdmin
    /\ rootPc' = "start"
    /\ UNCHANGED <<flagVars, registering, panicMsg, created, console, sessionLocked,
                   eventHandlers, wg, err, runRet, pc, loopRet, pollVars, fanVars, evtVars,
                   notified, goroutines, relCalls, relRet, createRet, registered,
                   provLocked>>

(* VirtualMachine.Start, and the root command's check of its result *)
(* an error is named by the call that returned it *)
StartResults == {"nil", "Launch", "WaitForCompletion", "GetConsole"}
Start ==
    /\ rootPc = "start"
    /\ \E r \in StartResults :
         /\ sessionLocked' = IF r = "Launch" THEN sessionLocked ELSE TRUE
         /\ console' = (r = "nil")
         /\ rootPc' = IF r = "nil" THEN "run" ELSE "deferred"
         /\ panicMsg' = IF r = "nil" THEN "" ELSE "Failed to start vm"
    /\ UNCHANGED <<flagVars, registering, created, eventHandlers, wg, err, runRet, pc,
                   loopRet, pollVars, fanVars, evtVars, notified, goroutines, relCalls,
                   relRet, createRet, registered, provLocked>>

(* VirtualMachine.Run: wg.Add(1); go func() {...}() *)
Run ==
    /\ rootPc = "run"
    /\ wg' = wg + 1
    /\ pc' = "go"
    /\ rootPc' = "wait"
    /\ UNCHANGED <<flagVars, registering, panicMsg, created, console, sessionLocked,
                   eventHandlers, err, runRet, loopRet, pollVars, fanVars, evtVars,
                   notified, goroutines, relCalls, relRet, createRet, registered,
                   provLocked>>

(* the goroutine picks the loop from the capability flag *)
GoStart ==
    /\ pc = "go"
    /\ pc' = IF SupportPassiveListener THEN "evt_source" ELSE "poll_state0"
    /\ goroutines' = Append(goroutines,
                        IF SupportPassiveListener THEN "passiveListenerLoop"
                        ELSE "pollingLoop")
    /\ UNCHANGED <<flagVars, registering, rootVars, eventHandlers, err, loopRet, pollVars,
                   fanVars, evtVars, notified>>

(* err = <loop>(); log; deferred wg.Done() *)
GoExit ==
    /\ pc = "go_ret"
    /\ err' = loopRet
    /\ wg' = wg - 1
    /\ pc' = "done"
    /\ UNCHANGED <<flagVars, registering, rootPc, panicMsg, created, console, sessionLocked,
                   eventHandlers, runRet, loopRet, pollVars, fanVars, evtVars, notified,
                   goroutines, relCalls, relRet, createRet, registered, provLocked>>

(* WaitDone that does not wait *)
WaitDone_NoWait(n) == TRUE

(* wg.Wait() returns when the counter is zero *)
WaitDone(n) == n = 0

(* wg.Wait(); return err -- and the root command's check of Run's result *)
RunReturn ==
    /\ rootPc = "wait"
    /\ WaitDone(wg)
    /\ runRet' = err
    /\ rootPc' = IF err = "nil" THEN "stop" ELSE "deferred"
    /\ panicMsg' = IF err = "nil" THEN "" ELSE "Error during vm execution"
    /\ UNCHANGED <<flagVars, registering, created, console, sessionLocked, eventHandlers,
                   wg, err, pc, loopRet, pollVars, fanVars, evtVars, notified, goroutines,
                   relCalls, relRet, createRet, registered, provLocked>>

(* VirtualMachine.Stop returns nil *)
Stop ==
    /\ rootPc = "stop"
    /\ rootPc' = "deferred"
    /\ UNCHANGED <<flagVars, registering, panicMsg, created, console, sessionLocked,
                   eventHandlers, wg, err, runRet, pc, loopRet, pollVars, fanVars, evtVars,
                   notified, goroutines, relCalls, relRet, createRet, registered,
                   provLocked>>

(* RootDeferred that calls Release whatever --keep says *)
RootDeferred_IgnoresKeep ==
    /\ rootPc = "deferred"
    /\ rootPc' = "rel_unlock"
    /\ UNCHANGED <<flagVars, registering, panicMsg, created, console, sessionLocked,
                   eventHandlers, wg, err, runRet, pc, loopRet, pollVars, fanVars, evtVars,
                   notified, goroutines, relCalls, relRet, createRet, registered,
                   provLocked>>

(* the deferred function: if !keepVM { vm.Release() } *)
RootDeferred ==
    /\ rootPc = "deferred"
    /\ rootPc' = IF keepVM THEN (IF panicMsg = "" THEN "exited" ELSE "panicked")
                 ELSE "rel_unlock"
    /\ UNCHANGED <<flagVars, registering, panicMsg, created, console, sessionLocked,
                   eventHandlers, wg, err, runRet, pc, loopRet, pollVars, fanVars, evtVars,
                   notified, goroutines, relCalls, relRet, createRet, registered,
                   provLocked>>

(* ---------------- VirtualMachine.Create ---------------- *)
DiskTypes == {"raw", "vdi", "other"}

(* the calls of Create whose error Create returns, in program order *)
CreateSteps ==
    << [at |-> "create_init",        call |-> "vbox.Init"],
       [at |-> "create_finddevice",  call |-> "backend.FindDevice"],
       [at |-> "create_rawvmdk",     call |-> "vmdk.CreateRawVMDK"],
       [at |-> "create_openmedium",  call |-> "vbox.OpenMedium"],
       [at |-> "create_machine",     call |-> "vbox.CreateMachine"],
       [at |-> "create_vram",        call |-> "machine.SetVramSize"],
       [at |-> "create_bios",        call |-> "machine.GetBiosSettings"],
       [at |-> "create_adapter",     call |-> "machine.GetNetworkAdapter"],
       [at |-> "create_adaptertype", call |-> "adapter.SetAdapterType"],
       [at |-> "create_controller",  call |-> "machine.AddStorageController"],
       [at |-> "create_settype",     call |-> "controller.SetType"],
       [at |-> "create_save",        call |-> "machine.SaveSettings"],
       [at |-> "create_register",    call |-> "machine.Register"],
       [at |-> "create_session",     call |-> "session.Init"],
       [at |-> "create_lock",        call |-> "session.LockMachine"],
       [at |-> "create_getmachine",  call |-> "session.GetMachine"],
       [at |-> "create_attach",      call |-> "smachine.AttachDevice"],
       [at |-> "create_savesession", call |-> "smachine.SaveSettings"],
       [at |-> "create_unlock",      call |-> "session.UnlockMachine"] >>

CreateIndex(at) == CHOOSE i \in 1..Len(CreateSteps) : CreateSteps[i].at = at
(* after vbox.Init comes the switch on the disk type; after the last call *)
(* the handles are stored in vm                                           *)
NextCreatePc(at) ==
    IF at = "create_init" THEN "create_disk"
    ELSE IF CreateIndex(at) = Len(CreateSteps) THEN "create_store"
    ELSE CreateSteps[CreateIndex(at) + 1].at

(* switch diskType: raw looks for the device, vdi takes the configured *)
(* location, anything else is an error                                  *)
CreateDisk ==
    /\ rootPc = "create_disk"
    /\ \E diskType \in DiskTypes :
         IF diskType = "raw" THEN rootPc' = "create_finddevice" /\ UNCHANGED createRet
         ELSE IF diskType = "vdi" THEN rootPc' = "create_openmedium" /\ UNCHANGED createRet
         ELSE rootPc' = "create_return" /\ createRet' = "Invalid disk type"
    /\ UNCHANGED <<flagVars, registering, panicMsg, created, console, sessionLocked,
                   eventHandlers, wg, err, runRet, pc, loopRet, pollVars, fanVars, evtVars,
                   notified, goroutines, relCalls, relRet, registered, provLocked>>

(* one call of Create: an error returns it at once, with nothing undone *)
CreateStep ==
    /\ rootPc \in {CreateSteps[i].at : i \in 1..Len(CreateSteps)}
    /\ \E ok \in BOOLEAN :
         LET call == CreateSteps[CreateIndex(rootPc)].call IN
         /\ registered' = IF call = "machine.Register" /\ ok THEN TRUE ELSE registered
         /\ provLocked' = IF call = "session.LockMachine" /\ ok THEN TRUE
                          ELSE IF call = "session.UnlockMachine" /\ ok THEN FALSE
                          ELSE provLocked
         /\ createRet' = IF ok THEN createRet ELSE call
         /\ rootPc' = IF ok THEN NextCreatePc(rootPc) ELSE "create_return"
    /\ UNCHANGED <<flagVars, registering, panicMsg, created, console, sessionLocked,
                   eventHandlers, wg, err, runRet, pc, loopRet, pollVars, fanVars, evtVars,
                   notified, goroutines, relCalls, relRet>>

(* vm.machine = machine; vm.controller = controller; vm.session = session; *)
(* vm.dd = dd; return nil                                                  *)
CreateStore ==
    /\ rootPc = "create_store"
    /\ created' = TRUE
    /\ createRet' = "nil"
    /\ rootPc' = "create_return"
    /\ UNCHANGED <<flagVars, registering, panicMsg, console, sessionLocked, eventHandlers,
                   wg, err, runRet, pc, loopRet, pollVars, fanVars, evtVars, notified,
                   goroutines, relCalls, relRet, registered, provLocked>>

(* the caller of Create invokes Release on the same VirtualMachine *)
CallRelease ==
    /\ rootPc = "create_return"
    /\ rootPc' = "rel_unlock"
    /\ UNCHANGED <<flagVars, registering, panicMsg, created, console, sessionLocked,
                   eventHandlers, wg, err, runRet, pc, loopRet, pollVars, fanVars, evtVars,
                   notified, goroutines, relCalls, relRet, createRet, registered,
                   provLocked>>

(* ---------------- VirtualMachine.Release ---------------- *)
(* ReleaseSteps with the controller released before the session is unlocked *)
ReleaseSteps_ControllerFirst ==
    << [at |-> "rel_unlock",       call |-> "controller.Release"],
       [at |-> "rel_sleep",        call |-> "session.UnlockMachine"],
       [at |-> "rel_controller",   call |-> "time.Sleep"],
       [at |-> "rel_unregister",   call |-> "machine.Unregister"],
       [at |-> "rel_deleteconfig", call |-> "machine.DeleteConfig"],
       [at |-> "rel_wait",         call |-> "progress.WaitForCompletion"],
       [at |-> "rel_machine",      call |-> "machine.Release"] >>

(* the steps of Release in program order, and the hypervisor call of each *)
ReleaseSteps ==
    << [at |-> "rel_unlock",       call |-> "session.UnlockMachine"],
       [at |-> "rel_sleep",        call |-> "time.Sleep"],
       [at |-> "rel_controller",   call |-> "controller.Release"],
       [at |-> "rel_unregister",   call |-> "machine.Unregister"],
       [at |-> "rel_deleteconfig", call |-> "machine.DeleteConfig"],
       [at |-> "rel_wait",         call |-> "progress.WaitForCompletion"],
       [at |-> "rel_machine",      call |-> "machine.Release"] >>

StepIndex(at) == CHOOSE i \in 1..Len(ReleaseSteps) : ReleaseSteps[i].at = at
NextReleasePc(at) ==
    IF StepIndex(at) = Len(ReleaseSteps) THEN "rel_return"
    ELSE ReleaseSteps[StepIndex(at) + 1].at

(* ReleaseStep that goes on to the next step after an error *)
ReleaseStep_ContinuesOnError ==
    /\ rootPc \in {ReleaseSteps[i].at : i \in 1..Len(ReleaseSteps)}
    /\ \E ok \in BOOLEAN :
         LET call == ReleaseSteps[StepIndex(rootPc)].call IN
         /\ ok \/ call # "time.Sleep"
         /\ relCalls' = Append(relCalls, [call |-> call, ok |-> ok, locked |-> sessionLocked])
         /\ sessionLocked' = IF call = "session.UnlockMachine" /\ ok THEN FALSE
                              ELSE sessionLocked
         /\ provLocked' = IF call = "session.UnlockMachine" /\ ok /\ created THEN FALSE
                           ELSE provLocked
         /\ registered' = IF call = "machine.Unregister" /\ ok /\ created THEN FALSE
                           ELSE registered
         /\ relRet' = IF ok THEN relRet ELSE call
         /\ rootPc' = NextReleasePc(rootPc)
    /\ UNCHANGED <<flagVars, registering, panicMsg, created, console, eventHandlers, wg,
                   err, runRet, pc, loopRet, pollVars, fanVars, evtVars, notified,
                   goroutines, createRet>>

(* one step of Release: the call is made; an error returns it at once *)
ReleaseStep ==
    /\ rootPc \in {ReleaseSteps[i].at : i \in 1..Len(ReleaseSteps)}
    /\ \E ok \in BOOLEAN :
         LET call == ReleaseSteps[StepIndex(rootPc)].call IN
         /\ ok \/ call # "time.Sleep"
         /\ relCalls' = Append(relCalls, [call |-> call, ok |-> ok, locked |-> sessionLocked])
         /\ sessionLocked' = IF call = "session.UnlockMachine" /\ ok THEN FALSE
                              ELSE sessionLocked
         /\ provLocked' = IF call = "session.UnlockMachine" /\ ok /\ created THEN FALSE
                           ELSE provLocked
         /\ registered' = IF call = "machine.Unregister" /\ ok /\ created THEN FALSE
                           ELSE registered
         /\ rootPc' = IF ok THEN NextReleasePc(rootPc) ELSE "rel_failed"
         /\ relRet' = IF ok THEN relRet ELSE call
    /\ UNCHANGED <<flagVars, registering, panicMsg, created, console, eventHandlers, wg,
                   err, runRet, pc, loopRet, pollVars, fanVars, evtVars, notified,
                   goroutines, createRet>>

(* Release returns: the deferred progress.Release() runs if DeleteConfig  *)
(* succeeded; the root command panics on an error                         *)
ReleaseReturn ==
    /\ rootPc \in {"rel_return", "rel_failed"}
    /\ relCalls' =
         IF \E i \in 1..Len(relCalls) :
                relCalls[i].call = "machine.DeleteConfig" /\ relCalls[i].ok
         THEN Append(relCalls, [call |-> "progress.Release", ok |-> TRUE,
                                locked |-> sessionLocked])
         ELSE relCalls
    /\ panicMsg' = IF rootPc = "rel_failed" THEN "Failed to release vm" ELSE panicMsg
    /\ relRet' = IF rootPc = "rel_failed" THEN relRet ELSE "nil"
    /\ rootPc' = IF rootPc = "rel_failed" \/ panicMsg # "" THEN "panicked" ELSE "exited"
    /\ UNCHANGED <<flagVars, registering, created, console, sessionLocked, eventHandlers,
                   wg, err, runRet, pc, loopRet, pollVars, fanVars, evtVars, notified,
                   goroutines, createRet, registered, provLocked>>

(* ---------------- range over vm.eventHandlers ---------------- *)
(* what a read of vm.eventHandlers can see: the slice, or, while an append *)
(* to it is under way in another goroutine, the slice before or after it  *)
RangeViews ==
    IF registering = "" THEN {eventHandlers}
    ELSE {eventHandlers, Append(eventHandlers, registering)}

(* for _, handler := range vm.eventHandlers: the slice is read once; a read *)
(* that races with an append may also see a torn slice header, which ends   *)
(* the process                                                              *)
RangeHandlers(call, at) ==
    \/ /\ ranged' \in RangeViews
       /\ hidx' = 1
       /\ cur' = call
       /\ pc' = at
    \/ /\ registering # ""
       /\ pc' = "crashed"
       /\ UNCHANGED fanVars

(* HandlerAt walking the slice from its end *)
HandlerAt_Reversed(hs, i) == hs[Len(hs) + 1 - i]

(* the handler the range visits at index i *)
HandlerAt(hs, i) == hs[i]

rootAll == <<rootPc, panicMsg, created, console, sessionLocked, wg, runRet, relCalls,
             relRet, createRet, registered, provLocked>>

(* ---------------- VirtualMachine.pollingLoop ---------------- *)
StateResults == MachineStates \cup {"err"}
EnumResults == SeqsUpTo(GuestProperty, MaxProps)

(* previousState, err := vm.machine.GetState() *)
PollInitState ==
    /\ pc = "poll_state0"
    /\ \E r \in StateResults :
         /\ queries' = Append(queries, r)
         /\ IF r = "err"
            THEN /\ loopRet' = "GetState"
                 /\ pc' = "go_ret"
                 /\ UNCHANGED previousState
            ELSE /\ previousState' = r
                 /\ pc' = "poll_props0"
                 /\ UNCHANGED loopRet
    /\ UNCHANGED <<flagVars, registering, rootAll, eventHandlers, err, previousProperties,
                   properties, state, todo, fanVars, evtVars, notified, goroutines>>

(* previousProperties, err := getPropertyMap() *)
PollInitProps ==
    /\ pc = "poll_props0"
    /\ \/ /\ loopRet' = "EnumerateGuestProperties"
          /\ pc' = "go_ret"
          /\ UNCHANGED previousProperties
       \/ \E props \in EnumResults :
            /\ previousProperties' = getPropertyMap(props)
            /\ pc' = "poll_state"
            /\ UNCHANGED loopRet
    /\ UNCHANGED <<flagVars, registering, rootAll, eventHandlers, err, previousState,
                   properties, state, todo, queries, fanVars, evtVars, notified,
                   goroutines>>

(* PollExit without the comparison with previousState *)
PollExit_NoPrevious(r, prev) == r = "err" \/ r = "PoweredOff"

(* PollExit without the err != nil test *)
PollExit_NoErr(r, prev) == r = "PoweredOff" /\ r # prev

(* the loop's exit test: err != nil || (state == PoweredOff && state != previousState) *)
PollExit(r, prev) == r = "err" \/ (r = "PoweredOff" /\ r # prev)

(* state, err := vm.machine.GetState(); exit test; previousState = state *)
PollState ==
    /\ pc = "poll_state"
    /\ Len(queries) < MaxQueries
    /\ \E r \in StateResults :
         /\ queries' = Append(queries, r)
         /\ IF PollExit(r, previousState)
            THEN /\ loopRet' = "nil"
                 /\ pc' = "go_ret"
                 /\ UNCHANGED previousState
            ELSE /\ previousState' = r
                 /\ pc' = "poll_props"
                 /\ UNCHANGED loopRet
    /\ UNCHANGED <<flagVars, registering, rootAll, eventHandlers, err, previousProperties,
                   properties, state, todo, fanVars, evtVars, notified, goroutines>>

(* properties, err := getPropertyMap() *)
PollProps ==
    /\ pc = "poll_props"
    /\ \/ /\ loopRet' = "EnumerateGuestProperties"
          /\ pc' = "go_ret"
          /\ UNCHANGED <<properties, todo>>
       \/ \E props \in EnumResults :
            /\ properties' = getPropertyMap(props)
            /\ todo' = DOMAIN getPropertyMap(props)
            /\ pc' = "poll_changed"
            /\ UNCHANGED loopRet
    /\ UNCHANGED <<flagVars, registering, rootAll, eventHandlers, err, previousState,
                   previousProperties, state, queries, fanVars, evtVars, notified,
                   goroutines>>

(* IsChanged that compares the whole property: value, timestamp and flags *)
IsChanged_WholeProperty(prev, name, prop) ==
    name \notin DOMAIN prev \/ prev[name] # prop

(* IsChanged with the !ok test forgotten: a new key is not a change *)
IsChanged_NoNew(prev, name, prop) ==
    name \in DOMAIN prev /\ prev[name].Value # prop.Value

(* previousProperty, ok := previousProperties[name]; !ok || previousProperty.Value != prop.Value *)
IsChanged(prev, name, prop) ==
    name \notin DOMAIN prev \/ prev[name].Value # prop.Value

(* the arguments of the notification of a new or changed property *)
ChangedCall(prop) == Call("", prop.Name, prop.Value, prop.Timestamp, prop.Flags)

(* the arguments of the notification of a property that disappeared *)
DeletedCall(prop) == Call("", prop.Name, "", 0, "")

(* _, ok := properties[name]; !ok *)
IsDeleted(now, name) == name \notin DOMAIN now

(* for name, prop := range properties: one key, in the order the map yields *)
PollChanged ==
    /\ pc = "poll_changed"
    /\ \/ /\ todo = {}
          /\ todo' = DOMAIN previousProperties
          /\ pc' = "poll_deleted"
          /\ UNCHANGED fanVars
       \/ \E name \in todo :
            /\ todo' = todo \ {name}
            /\ IF IsChanged(previousProperties, name, properties[name])
               THEN RangeHandlers(ChangedCall(properties[name]), "poll_fan_changed")
               ELSE UNCHANGED <<pc, fanVars>>
    /\ UNCHANGED <<flagVars, registering, rootAll, eventHandlers, err, loopRet,
                   previousState, previousProperties, properties, state, queries, evtVars,
                   notified, goroutines>>

(* for name, prop := range previousProperties: one key *)
PollDeleted ==
    /\ pc = "poll_deleted"
    /\ \/ /\ todo = {}
          /\ pc' = "poll_sleep"
          /\ UNCHANGED <<todo, fanVars>>
       \/ \E name \in todo :
            /\ todo' = todo \ {name}
            /\ IF IsDeleted(properties, name)
               THEN RangeHandlers(DeletedCall(previousProperties[name]), "poll_fan_deleted")
               ELSE UNCHANGED <<pc, fanVars>>
    /\ UNCHANGED <<flagVars, registering, rootAll, eventHandlers, err, loopRet,
                   previousState, previousProperties, properties, state, queries, evtVars,
                   notified, goroutines>>

(* one turn of the range over the handlers in pollingLoop:                 *)
(* handler.OnGuestPropertyChanged(...), or the end of the range            *)
PollNotify ==
    /\ pc \in {"poll_fan_changed", "poll_fan_deleted"}
    /\ IF hidx <= Len(ranged)
       THEN /\ notified' = Append(notified, [cur EXCEPT !.h = HandlerAt(ranged, hidx)])
            /\ hidx' = hidx + 1
            /\ UNCHANGED <<pc, ranged, cur>>
       ELSE /\ pc' = IF pc = "poll_fan_changed" THEN "poll_changed" ELSE "poll_deleted"
            /\ ranged' = <<>>
            /\ hidx' = 1
            /\ cur' = NoCall
            /\ UNCHANGED notified
    /\ UNCHANGED <<flagVars, registering, rootAll, eventHandlers, err, loopRet, pollVars,
                   evtVars, goroutines>>

(* PollSleep that keeps the previous snapshot instead of replacing it *)
PollSleep_KeepsPrevious ==
    /\ pc = "poll_sleep"
    /\ properties' = EmptyMap
    /\ notified' = <<>>
    /\ pc' = "poll_state"
    /\ UNCHANGED <<flagVars, registering, rootAll, eventHandlers, err, loopRet,
                   previousState, state, previousProperties, todo, queries, fanVars,
                   evtVars, goroutines>>

(* time.Sleep(250ms); previousProperties = properties *)
PollSleep ==
    /\ pc = "poll_sleep"
    /\ previousProperties' = properties
    /\ properties' = EmptyMap
    /\ notified' = <<>>
    /\ pc' = "poll_state"
    /\ UNCHANGED <<flagVars, registering, rootAll, eventHandlers, err, loopRet,
                   previousState, state, todo, queries, fanVars, evtVars, goroutines>>

(* ---------------- VirtualMachine.passiveListenerLoop ---------------- *)
HvCall(call, ok) == [call |-> call, ok |-> ok]

(* EvtReturn that leaves without running the deferred calls *)
EvtReturn_NoDefers(e) ==
    /\ loopRet' = e
    /\ pc' = "go_ret"

(* EvtReturn that drops the error *)
EvtReturn_Swallow(e) ==
    /\ loopRet' = "nil"
    /\ pc' = "evt_unwind"

(* return e: the deferred calls run before the loop's caller sees e *)
EvtReturn(e) ==
    /\ loopRet' = e
    /\ pc' = "evt_unwind"

(* the three acquisitions before the loop, each deferring its release *)
EvtSetupSteps ==
    << [at |-> "evt_source",   call |-> "GetEventSource",   deferred |-> "eventSource.Release"],
       [at |-> "evt_listener", call |-> "CreateListener",   deferred |-> "listener.Release"],
       [at |-> "evt_register", call |-> "RegisterListener",
        deferred |-> "eventSource.UnregisterListener"] >>
SetupIndex(at) == CHOOSE i \in 1..Len(EvtSetupSteps) : EvtSetupSteps[i].at = at
NextSetupPc(at) ==
    IF SetupIndex(at) = Len(EvtSetupSteps) THEN "evt_get"
    ELSE EvtSetupSteps[SetupIndex(at) + 1].at

EvtSetup ==
    /\ pc \in {EvtSetupSteps[i].at : i \in 1..Len(EvtSetupSteps)}
    /\ \E ok \in BOOLEAN :
         /\ hvCalls' = Append(hvCalls, HvCall(EvtSetupSteps[SetupIndex(pc)].call, ok))
         /\ IF ok
            THEN /\ defers' = Append(defers, EvtSetupSteps[SetupIndex(pc)].deferred)
                 /\ pc' = NextSetupPc(pc)
                 /\ UNCHANGED loopRet
            ELSE /\ EvtReturn(EvtSetupSteps[SetupIndex(pc)].call)
                 /\ UNCHANGED defers
    /\ UNCHANGED <<flagVars, registering, rootAll, eventHandlers, err, pollVars, fanVars,
                   event, events, timeouts, notified, goroutines>>

(* event, err := eventSource.GetEvent(listener, 250): an error *)
EvtGetEventErr ==
    /\ pc = "evt_get"
    /\ hvCalls' = <<HvCall("GetEvent", FALSE)>>
    /\ event' = "nil"
    /\ state' = "none"
    /\ notified' = <<>>
    /\ EvtReturn("GetEvent")
    /\ UNCHANGED <<flagVars, registering, rootAll, eventHandlers, err, previousState,
                   previousProperties, properties, todo, queries, fanVars, defers, events,
                   timeouts, goroutines>>

(* AfterGetEvent without the event == nil test *)
AfterGetEvent_NoNilTest(e) == "evt_type"

(* where the loop goes after GetEvent returned without error *)
AfterGetEvent(e) == IF e = "nil" THEN "evt_get" ELSE "evt_type"

(* GetEvent returned nil after the timeout: continue *)
EvtTimeout ==
    /\ pc = "evt_get"
    /\ timeouts < MaxTimeouts
    /\ timeouts' = timeouts + 1
    /\ hvCalls' = <<HvCall("GetEvent", TRUE)>>
    /\ event' = "nil"
    /\ state' = "none"
    /\ notified' = <<>>
    /\ pc' = AfterGetEvent("nil")
    /\ UNCHANGED <<flagVars, registering, rootAll, eventHandlers, err, loopRet,
                   previousState, previousProperties, properties, todo, queries, fanVars,
                   defers, events, goroutines>>

(* GetEvent returned an event of one of the kinds registered for *)
EvtGetEvent ==
    /\ pc = "evt_get"
    /\ events < MaxEvents
    /\ \E e \in interestingEvents :
         /\ event' = e
         /\ pc' = AfterGetEvent(e)
    /\ events' = events + 1
    /\ hvCalls' = <<HvCall("GetEvent", TRUE)>>
    /\ state' = "none"
    /\ notified' = <<>>
    /\ UNCHANGED <<flagVars, registering, rootAll, eventHandlers, err, loopRet,
                   previousState, previousProperties, properties, todo, queries, fanVars,
                   defers, timeouts, goroutines>>

(* eventType, err := event.GetType() *)
EvtType ==
    /\ pc = "evt_type"
    /\ \E ok \in BOOLEAN :
         /\ hvCalls' = Append(hvCalls, HvCall("GetType", ok))
         /\ IF ok THEN pc' = "evt_state" /\ UNCHANGED loopRet
                  ELSE EvtReturn("GetType")
    /\ UNCHANGED <<flagVars, registering, rootAll, eventHandlers, err, pollVars, fanVars,
                   defers, event, events, timeouts, notified, goroutines>>

(* state, err := vm.machine.GetState() *)
EvtState ==
    /\ pc = "evt_state"
    /\ \E r \in StateResults :
         /\ hvCalls' = Append(hvCalls, HvCall("GetState", r # "err"))
         /\ IF r # "err"
            THEN /\ state' = r
                 /\ pc' = "evt_switch"
                 /\ UNCHANGED loopRet
            ELSE /\ EvtReturn("GetState")
                 /\ UNCHANGED state
    /\ UNCHANGED <<flagVars, registering, rootAll, eventHandlers, err, previousState,
                   previousProperties, properties, todo, queries, fanVars, defers, event,
                   events, timeouts, notified, goroutines>>

(* the payload of a guest-property-changed event: name, value, flags *)
Payloads == [name : Keys, value : Values, flags : FlagSet]

(* switch eventType *)
EvtSwitch ==
    /\ pc = "evt_switch"
    /\ IF event = "OnGuestPropertyChanged"
       THEN \E ok \in BOOLEAN :
              /\ hvCalls' = Append(hvCalls, HvCall("NewGuestPropertyChangedEvent", ok))
              /\ IF ok
                 THEN /\ \E p \in Payloads :
                           RangeHandlers(Call("", p.name, p.value, 0, p.flags), "evt_fan")
                      /\ UNCHANGED loopRet
                 ELSE /\ EvtReturn("NewGuestPropertyChangedEvent")
                      /\ UNCHANGED fanVars
       ELSE /\ pc' = "evt_check"
            /\ UNCHANGED <<hvCalls, loopRet, fanVars>>
    /\ UNCHANGED <<flagVars, registering, rootAll, eventHandlers, err, pollVars, defers,
                   event, events, timeouts, notified, goroutines>>

(* name, _ := guestPropEvent.GetName(): the field of the payload, or the *)
(* empty string when the getter failed; the error is dropped              *)
Decoded(field) == {field, ""}

(* time.Now().UnixNano() *)
Now == Timestamps \ {0}

(* EvtNotify that returns the error of a failed getter instead of calling the handler *)
EvtNotify_Escalating ==
    /\ pc = "evt_fan"
    /\ IF hidx <= Len(ranged)
       THEN \E name \in Decoded(cur.name), value \in Decoded(cur.value),
               flags \in Decoded(cur.flags), t \in Now :
              IF <<name, value, flags>> = <<cur.name, cur.value, cur.flags>>
              THEN /\ notified' = Append(notified,
                                     Call(HandlerAt(ranged, hidx), name, value, t, flags))
                   /\ hidx' = hidx + 1
                   /\ UNCHANGED <<pc, loopRet, ranged, cur>>
              ELSE /\ EvtReturn("GetName")
                   /\ UNCHANGED <<notified, fanVars>>
       ELSE /\ pc' = "evt_check"
            /\ ranged' = <<>>
            /\ hidx' = 1
            /\ cur' = NoCall
            /\ UNCHANGED <<notified, loopRet>>
    /\ UNCHANGED <<flagVars, registering, rootAll, eventHandlers, err, pollVars, defers,
                   event, hvCalls, events, timeouts, goroutines>>

(* one turn of the range over the handlers in passiveListenerLoop: the three *)
(* getters, each of which may fail, then handler.OnGuestPropertyChanged      *)
EvtNotify ==
    /\ pc = "evt_fan"
    /\ IF hidx <= Len(ranged)
       THEN /\ \E name \in Decoded(cur.name), value \in Decoded(cur.value),
                  flags \in Decoded(cur.flags), t \in Now :
                 notified' = Append(notified,
                                 Call(HandlerAt(ranged, hidx), name, value, t, flags))
            /\ hidx' = hidx + 1
            /\ UNCHANGED <<pc, ranged, cur>>
       ELSE /\ pc' = "evt_check"
            /\ ranged' = <<>>
            /\ hidx' = 1
            /\ cur' = NoCall
            /\ UNCHANGED notified
    /\ UNCHANGED <<flagVars, registering, rootAll, eventHandlers, err, loopRet, pollVars,
                   defers, event, hvCalls, events, timeouts, goroutines>>

(* EvtExit without the test of the event kind *)
EvtExit_AnyKind(e, st) == st = "PoweredOff"

(* eventType == OnStateChanged && state == PoweredOff *)
EvtExit(e, st) == e = "OnStateChanged" /\ st = "PoweredOff"

(* the end of the loop body: return nil, or EventProcessed and event.Release *)
EvtFinish ==
    /\ pc = "evt_check"
    /\ IF EvtExit(event, state)
       THEN /\ EvtReturn("nil")
            /\ UNCHANGED hvCalls
       ELSE \E ok \in BOOLEAN :
              IF ok
              THEN /\ hvCalls' = hvCalls \o <<HvCall("EventProcessed", TRUE),
                                             HvCall("event.Release", TRUE)>>
                   /\ pc' = "evt_get"
                   /\ UNCHANGED loopRet
              ELSE /\ hvCalls' = Append(hvCalls, HvCall("EventProcessed", FALSE))
                   /\ EvtReturn("EventProcessed")
    /\ UNCHANGED <<flagVars, registering, rootAll, eventHandlers, err, pollVars, fanVars,
                   defers, event, events, timeouts, notified, goroutines>>

(* the deferred calls run last-in first-out, then the loop has returned *)
EvtUnwind ==
    /\ pc = "evt_unwind"
    /\ IF defers # <<>>
       THEN /\ hvCalls' = Append(hvCalls, HvCall(defers[Len(defers)], TRUE))
            /\ defers' = SubSeq(defers, 1, Len(defers) - 1)
            /\ UNCHANGED pc
       ELSE /\ pc' = "go_ret"
            /\ UNCHANGED <<hvCalls, defers>>
    /\ UNCHANGED <<flagVars, registering, rootAll, eventHandlers, err, loopRet, pollVars,
                   fanVars, event, events, timeouts, notified, goroutines>>

(* ---------------- the monitor goroutine ---------------- *)
pollingLoop ==
    \/ PollInitState
    \/ PollInitProps
    \/ PollState
    \/ PollProps
    \/ PollChanged
    \/ PollDeleted
    \/ PollNotify
    \/ PollSleep

passiveListenerLoop ==
    \/ EvtSetup
    \/ EvtGetEventErr
    \/ EvtTimeout
    \/ EvtGetEvent
    \/ EvtType
    \/ EvtState
    \/ EvtSwitch
    \/ EvtNotify
    \/ EvtFinish
    \/ EvtUnwind

(* ---------------- the program: cmd/root.go, which registers no handler ---------------- *)
Next ==
    \/ RootElevate
    \/ RootNewVM
    \/ Start
    \/ Run
    \/ GoStart
    \/ GoExit
    \/ RunReturn
    \/ Stop
    \/ RootDeferred
    \/ ReleaseStep
    \/ ReleaseReturn
    \/ pollingLoop
    \/ passiveListenerLoop

Spec == Init /\ [][Next]_vars

(* ---------------- a VirtualMachine with observers ---------------- *)
(* Start has returned nil; the caller registers its handlers and calls Run *)
InitVM ==
    /\ keepVM = TRUE
    /\ isAdmin = TRUE
    /\ SupportPassiveListener \in BOOLEAN
    /\ rootPc = "run"
    /\ panicMsg = ""
    /\ created = FALSE
    /\ console = TRUE
    /\ sessionLocked = TRUE
    /\ eventHandlers = <<>>
    /\ registering = ""
    /\ wg = 0
    /\ err = "nil"
    /\ runRet = "none"
    /\ pc = "idle"
    /\ loopRet = "none"
    /\ previousState = "none"
    /\ previousProperties = EmptyMap
    /\ properties = EmptyMap
    /\ state = "none"
    /\ todo = {}
    /\ ranged = <<>>
    /\ hidx = 1
    /\ cur = NoCall
    /\ defers = <<>>
    /\ event = "nil"
    /\ notified = <<>>
    /\ queries = <<>>
    /\ goroutines = <<>>
    /\ hvCalls = <<>>
    /\ events = 0
    /\ timeouts = 0
    /\ relCalls = <<>>
    /\ relRet = "none"
    /\ createRet = "none"
    /\ registered = FALSE
    /\ provLocked = FALSE

NextVM ==
    \/ \E handler \in Handlers : RegisterEventHandler(handler)
    \/ Run
    \/ GoStart
    \/ GoExit
    \/ RunReturn
    \/ pollingLoop
    \/ passiveListenerLoop

SpecVM == InitVM /\ [][NextVM]_vars

(* ---------------- Create, then Release, on one VirtualMachine ---------------- *)
InitProvision ==
    /\ keepVM = FALSE
    /\ isAdmin = TRUE
    /\ SupportPassiveListener \in BOOLEAN
    /\ rootPc = "create_init"
    /\ panicMsg = ""
    /\ created = FALSE
    /\ console = FALSE
    /\ sessionLocked = FALSE
    /\ eventHandlers = <<>>
    /\ registering = ""
    /\ wg = 0
    /\ err = "nil"
    /\ runRet = "none"
    /\ pc = "idle"
    /\ loopRet = "none"
    /\ previousState = "none"
    /\ previousProperties = EmptyMap
    /\ properties = EmptyMap
    /\ state = "none"
    /\ todo = {}
    /\ ranged = <<>>
    /\ hidx = 1
    /\ cur = NoCall
    /\ defers = <<>>
    /\ event = "nil"
    /\ notified = <<>>
    /\ queries = <<>>
    /\ goroutines = <<>>
    /\ hvCalls = <<>>
    /\ events = 0
    /\ timeouts = 0
    /\ relCalls = <<>>
    /\ relRet = "none"
    /\ createRet = "none"
    /\ registered = FALSE
    /\ provLocked = FALSE

NextProvision ==
    \/ CreateStep
    \/ CreateDisk
    \/ CreateStore
    \/ CallRelease
    \/ ReleaseStep
    \/ ReleaseReturn

SpecProvision == InitProvision /\ [][NextProvision]_vars

(* ---------------- a VirtualMachine whose observers register during Run ---------------- *)
InitRace ==
    /\ keepVM = TRUE
    /\ isAdmin = TRUE
    /\ SupportPassiveListener = FALSE
    /\ rootPc = "run"
    /\ panicMsg = ""
    /\ created = FALSE
    /\ console = TRUE
    /\ sessionLocked = TRUE
    /\ eventHandlers = <<>>
    /\ registering = ""
    /\ wg = 0
    /\ err = "nil"
    /\ runRet = "none"
    /\ pc = "idle"
    /\ loopRet = "none"
    /\ previousState = "none"
    /\ previousProperties = EmptyMap
    /\ properties = EmptyMap
    /\ state = "none"
    /\ todo = {}
    /\ ranged = <<>>
    /\ hidx = 1
    /\ cur = NoCall
    /\ defers = <<>>
    /\ event = "nil"
    /\ notified = <<>>
    /\ queries = <<>>
    /\ goroutines = <<>>
    /\ hvCalls = <<>>
    /\ events = 0
    /\ timeouts = 0
    /\ relCalls = <<>>
    /\ relRet = "none"
    /\ createRet = "none"
    /\ registered = FALSE
    /\ provLocked = FALSE

NextRace ==
    \/ \E handler \in Handlers : RegisterEventHandler(handler)
    \/ \E handler \in Handlers : RaceRegisterBegin(handler)
    \/ RaceRegisterEnd
    \/ Run
    \/ GoStart
    \/ GoExit
    \/ RunReturn
    \/ pollingLoop

SpecRace == InitRace /\ [][NextRace]_vars

(* ======================= properties ======================= *)
Polling == goroutines = <<"pollingLoop">>
Passive == goroutines = <<"passiveListenerLoop">>

(* the calls h received for the property named k, in the current log *)
CallsFor(h, k) == {i \in 1..Len(notified) : notified[i].h = h /\ notified[i].name = k}
(* how many times h was registered *)
Registrations(h) == Cardinality({i \in 1..Len(eventHandlers) : eventHandlers[i] = h})

NewOrChanged(S0, S1, k) ==
    /\ k \in DOMAIN S1
    /\ (k \in DOMAIN S0 => S0[k].Value # S1[k].Value)
Disappeared(S0, S1, k) == k \in DOMAIN S0 /\ k \notin DOMAIN S1

(* C1: at the end of a polling iteration over the snapshots S0 =            *)
(* previousProperties and S1 = properties, every registration of every      *)
(* handler has received exactly one call for each key of S1 that is new or  *)
(* changed, with S1's value, timestamp and flags, exactly one call          *)
(* (name, "", 0, "") for each key of S0 missing from S1, and no call for    *)
(* any other key.                                                           *)
C1_PollingDiff ==
    (Polling /\ pc = "poll_sleep") =>
        /\ \A i \in 1..Len(notified) :
              notified[i].h \in Handlers /\ notified[i].name \in Keys
        /\ \A h \in Handlers, k \in Keys :
              IF NewOrChanged(previousProperties, properties, k)
              THEN /\ Cardinality(CallsFor(h, k)) = Registrations(h)
                   /\ \A i \in CallsFor(h, k) :
                         /\ notified[i].value = properties[k].Value
                         /\ notified[i].timestamp = properties[k].Timestamp
                         /\ notified[i].flags = properties[k].Flags
              ELSE IF Disappeared(previousProperties, properties, k)
              THEN /\ Cardinality(CallsFor(h, k)) = Registrations(h)
                   /\ \A i \in CallsFor(h, k) :
                         /\ notified[i].value = ""
                         /\ notified[i].timestamp = 0
                         /\ notified[i].flags = ""
              ELSE CallsFor(h, k) = {}

(* C1 witness: two handlers, a key that changed and a key that disappeared *)
C1_Witness ==
    /\ Polling /\ pc = "poll_sleep"
    /\ Len(eventHandlers) = 2
    /\ \E k \in Keys : k \in DOMAIN previousProperties
                       /\ NewOrChanged(previousProperties, properties, k)
    /\ \E k \in Keys : Disappeared(previousProperties, properties, k)
    /\ Len(notified) = 4

(* the index of the first query that reported powered-off, 0 if none did *)
FirstOff ==
    IF \E i \in 1..Len(queries) : queries[i] = "PoweredOff"
    THEN CHOOSE i \in 1..Len(queries) :
            /\ queries[i] = "PoweredOff"
            /\ \A j \in 1..(i - 1) : queries[j] # "PoweredOff"
    ELSE 0
AllQueriesSucceeded == \A i \in 1..Len(queries) : queries[i] # "err"

(* C2 as claimed: with successful queries, the loop has returned nil once   *)
(* an iteration has tested a query at or after the first powered-off report *)
(* (the initial query included), it returns nil only after such a report,   *)
(* and without notifying.                                                   *)
C2_AsClaimed ==
    (Polling /\ AllQueriesSucceeded) =>
        /\ (loopRet = "nil" => FirstOff # 0 /\ notified = <<>>)
        /\ (FirstOff # 0 /\ Len(queries) >= 2 => loopRet = "nil")

(* C2 amended: with successful queries, when powered-off is first reported  *)
(* by a query of the loop (query N >= 2) the loop returns nil in that       *)
(* iteration; it returns nil only on a query that reports powered-off right *)
(* after a query that reported another state, and notifies nobody then.     *)
C2_PollingTermination ==
    (Polling /\ AllQueriesSucceeded) =>
        /\ loopRet = "nil" =>
              /\ Len(queries) >= 2
              /\ queries[Len(queries)] = "PoweredOff"
              /\ queries[Len(queries) - 1] # "PoweredOff"
              /\ notified = <<>>
        /\ FirstOff >= 2 => (Len(queries) = FirstOff /\ loopRet = "nil")

(* C2 witness: the third query is the first to report powered-off *)
C2_Witness ==
    /\ Polling
    /\ queries = <<"Running", "Running", "PoweredOff">>
    /\ loopRet = "nil"
    /\ pc = "done"

(* C9 as claimed: any failed state query of the polling loop ends it with nil *)
C9_AsClaimed ==
    Polling =>
        \A i \in 1..Len(queries) :
            queries[i] = "err" => (loopRet = "nil" /\ notified = <<>>)

(* C9 amended: a failed state query inside the loop ends the loop with nil  *)
(* and no notification in that iteration; a failure of the initial query,   *)
(* made before the loop, is returned as the loop's error.                   *)
C9_QueryFailure ==
    Polling =>
        \A i \in 1..Len(queries) :
            queries[i] = "err" =>
                /\ i = Len(queries)
                /\ IF i = 1 THEN loopRet = "GetState"
                   ELSE loopRet = "nil" /\ notified = <<>>

(* C9 witness: the third query fails after an iteration that notified *)
C9_Witness ==
    /\ Polling
    /\ Len(queries) = 3 /\ queries[3] = "err"
    /\ loopRet = "nil"
    /\ eventHandlers # <<>>

HasCall(c) == \E i \in 1..Len(hvCalls) : hvCalls[i].call = c

(* C3: in event mode the loop has returned nil exactly when the event it    *)
(* handled is state-changed and the state queried for it is powered-off;    *)
(* that event is not acknowledged; every other event that was handled       *)
(* without an error is acknowledged and the loop goes on.                   *)
C3_EventTermination ==
    Passive =>
        /\ loopRet = "nil" =>
              /\ event = "OnStateChanged" /\ state = "PoweredOff"
              /\ ~HasCall("EventProcessed")
        /\ (event = "OnStateChanged" /\ state = "PoweredOff"
                /\ pc \notin {"evt_switch", "evt_check"}) => loopRet = "nil"
        /\ (pc = "evt_get" /\ event # "nil") =>
              /\ loopRet = "none"
              /\ HasCall("EventProcessed")
              /\ ~(event = "OnStateChanged" /\ state = "PoweredOff")

(* C3 witness: the second event is the state-changed event that ends the loop *)
C3_Witness ==
    /\ Passive
    /\ events = 2
    /\ event = "OnStateChanged" /\ state = "PoweredOff"
    /\ loopRet = "nil" /\ pc = "done"

(* the calls made when the loop returns: the deferred releases *)
DeferredCalls == {"eventSource.UnregisterListener", "listener.Release", "eventSource.Release"}
IsError(e) == e \notin {"none", "nil"}

(* a failed call ends the loop body with its error, which Run returns *)
C8_State ==
    Passive =>
        /\ \A i \in 1..Len(hvCalls) :
              ~hvCalls[i].ok =>
                  /\ loopRet = hvCalls[i].call
                  /\ pc \in {"evt_unwind", "go_ret", "done"}
                  /\ \A j \in (i + 1)..Len(hvCalls) : hvCalls[j].call \in DeferredCalls
        /\ IsError(loopRet) => \E i \in 1..Len(hvCalls) : ~hvCalls[i].ok
        /\ runRet # "none" => runRet = loopRet
(* with an error to return, nothing is fetched or notified any more *)
C8_Step ==
    (Passive /\ IsError(loopRet)) =>
        /\ loopRet' = loopRet
        /\ notified' = notified
        /\ events' = events
        /\ timeouts' = timeouts

(* C8: in event mode a failed hypervisor call is the last call of the loop  *)
(* body, its error is what the loop returns and what Run returns, and once  *)
(* the loop has an error to return no event is fetched and no handler is    *)
(* called any more.                                                         *)
C8_EventFatalErrors == [](C8_State) /\ [][C8_Step]_vars

(* C8 witness: the acknowledgment of a dispatched event failed and Run returned it *)
C8_Witness ==
    /\ Passive
    /\ loopRet = "EventProcessed" /\ runRet = "EventProcessed"
    /\ Len(notified) = 2

(* C10: while the loop runs, after a nil result of GetEvent the goroutine   *)
(* is back at GetEvent and nothing but that GetEvent happened: no state     *)
(* query, no handler call, no acknowledgment, no return.                    *)
C10_EventTimeout ==
    (Passive /\ timeouts > 0 /\ event = "nil" /\ loopRet = "none") =>
        /\ pc = "evt_get"
        /\ state = "none"
        /\ notified = <<>>
        /\ hvCalls = <<HvCall("GetEvent", TRUE)>>

(* C10 witness: after a delivered event, as many timeouts as the bound allows *)
C10_Witness ==
    /\ Passive
    /\ events = 1
    /\ timeouts = MaxTimeouts
    /\ event = "nil" /\ pc = "evt_get" /\ loopRet = "none"

(* the keys for which the diff of S0 and S1 notifies *)
Notifying(S0, S1) == {k \in Keys : NewOrChanged(S0, S1, k) \/ Disappeared(S0, S1, k)}

(* C4: the handler calls come in blocks, one block per detected change,     *)
(* each block calling the registered handlers once per registration in      *)
(* registration order; a complete dispatch has called all of them.          *)
C4_FanOutOrder ==
    LET n == Len(eventHandlers) IN
    /\ \A i \in 1..Len(notified) :
          /\ n > 0
          /\ notified[i].h = eventHandlers[((i - 1) % n) + 1]
          /\ Polling => notified[i].name = notified[i - ((i - 1) % n)].name
    /\ (Polling /\ pc = "poll_sleep") =>
          Len(notified) = n * Cardinality(Notifying(previousProperties, properties))
    /\ (Passive /\ pc = "evt_check") =>
          Len(notified) = IF event = "OnGuestPropertyChanged" THEN n ELSE 0

(* C4 witness: B registered before A, two changes dispatched *)
C4_Witness ==
    /\ Polling /\ pc = "poll_sleep"
    /\ eventHandlers = <<"B", "A">>
    /\ Len(notified) = 4

PollPcs == {"poll_state0", "poll_props0", "poll_state", "poll_props", "poll_changed",
            "poll_deleted", "poll_fan_changed", "poll_fan_deleted", "poll_sleep"}
EvtPcs == {"evt_source", "evt_listener", "evt_register", "evt_get", "evt_type",
           "evt_state", "evt_switch", "evt_fan", "evt_check", "evt_unwind"}

(* C5: a call of Run starts one goroutine, which runs the loop the flag     *)
(* selects and only that loop; Run returns after the goroutine has ended,   *)
(* with what the loop returned.                                             *)
C5_Run ==
    /\ Len(goroutines) <= 1
    /\ goroutines # <<>> =>
          goroutines[1] = IF SupportPassiveListener THEN "passiveListenerLoop"
                          ELSE "pollingLoop"
    /\ pc \in PollPcs => (~SupportPassiveListener /\ Polling)
    /\ pc \in EvtPcs => (SupportPassiveListener /\ Passive)
    /\ rootPc = "wait" => pc # "idle"
    /\ runRet # "none" => (pc = "done" /\ Len(goroutines) = 1 /\ runRet = loopRet)

(* C5 witness: Run returned the error of the polling loop *)
C5_Witness ==
    /\ runRet = "EnumerateGuestProperties"
    /\ Polling
    /\ pc = "done"

TeardownOrder ==
    <<"session.UnlockMachine", "time.Sleep", "controller.Release", "machine.Unregister",
      "machine.DeleteConfig", "progress.WaitForCompletion", "machine.Release">>

(* C6: the calls of Release are a prefix of unlock, wait, release           *)
(* controller, unregister, delete config, wait for completion, release      *)
(* machine (the deferred progress.Release aside, which comes last); a call  *)
(* is made only after the one before it succeeded; the controller is        *)
(* released only with the session unlocked.                                 *)
C6_TeardownOrder ==
    \A i \in 1..Len(relCalls) :
        \/ /\ i <= Len(TeardownOrder)
           /\ relCalls[i].call = TeardownOrder[i]
           /\ \A j \in 1..(i - 1) : relCalls[j].ok
           /\ relCalls[i].call = "controller.Release" => ~relCalls[i].locked
        \/ /\ i = Len(relCalls)
           /\ relCalls[i].call = "progress.Release"
           /\ rootPc \in {"exited", "panicked"}

(* C6 witness: a Release that ran to its end after a launch locked the session *)
C6_Witness ==
    /\ Len(relCalls) = 8
    /\ relCalls[1].locked
    /\ relCalls[7].ok
    /\ rootPc = "exited"

StartInvoked == isAdmin /\ rootPc \notin {"main", "start"}

(* C7: Start is invoked only on a VM that Create provisioned, Run only      *)
(* after Start succeeded, Stop only after Run returned nil, Release after   *)
(* all of them.                                                             *)
C7_Orchestration ==
    /\ StartInvoked => created
    /\ pc # "idle" => console
    /\ rootPc = "stop" => runRet = "nil"
    /\ relCalls # <<>> => rootPc \notin {"main", "start", "run", "wait", "stop"}

(* the deferred releases the loop has run, in the order it ran them *)
RECURSIVE CleanupFrom(_)
CleanupFrom(i) ==
    IF i > Len(hvCalls) THEN <<>>
    ELSE IF hvCalls[i].call \in DeferredCalls
         THEN <<hvCalls[i].call>> \o CleanupFrom(i + 1)
         ELSE CleanupFrom(i + 1)
(* the acquisition succeeded: it is in the log, or the loop got as far as GetEvent *)
Acquired(c) ==
    \/ HasCall("GetEvent")
    \/ \E i \in 1..Len(hvCalls) : hvCalls[i].call = c /\ hvCalls[i].ok

(* C11: when passiveListenerLoop has returned, by nil or by an error, the   *)
(* listener has been unregistered exactly if it was registered, released    *)
(* exactly if it was created, and the event source released exactly if it   *)
(* was acquired, in the order unregister, listener release, source release. *)
C11_EventCleanup ==
    (Passive /\ pc \in {"go_ret", "done"}) =>
        CleanupFrom(1) =
            (IF Acquired("RegisterListener")
             THEN <<"eventSource.UnregisterListener">> ELSE <<>>)
            \o (IF Acquired("CreateListener") THEN <<"listener.Release">> ELSE <<>>)
            \o (IF Acquired("GetEventSource") THEN <<"eventSource.Release">> ELSE <<>>)

(* C11 witness: the loop returned an acknowledgment error and released all three *)
C11_Witness ==
    /\ Passive /\ pc = "done"
    /\ loopRet = "EventProcessed"
    /\ Len(CleanupFrom(1)) = 3

GetterErrors == {"GetName", "GetValue", "GetFlags"}

(* C12: each field a handler receives for a guest-property event is the     *)
(* field of the payload or, its getter having failed, the empty string; a   *)
(* failed getter stops nothing: every registered handler is called for the  *)
(* event, the loop never returns a getter's error, and the event is         *)
(* acknowledged after the fan-out like any other.                           *)
C12_DecodeTolerance ==
    Passive =>
        /\ pc = "evt_fan" =>
              \A i \in 1..Len(notified) :
                  /\ notified[i].h = HandlerAt(ranged, i)
                  /\ notified[i].name \in Decoded(cur.name)
                  /\ notified[i].value \in Decoded(cur.value)
                  /\ notified[i].flags \in Decoded(cur.flags)
        /\ (event = "OnGuestPropertyChanged" /\ pc = "evt_check") =>
              (Len(notified) = Len(eventHandlers) /\ loopRet = "none")
        /\ loopRet \notin GetterErrors
        /\ runRet \notin GetterErrors

(* C12 witness: the payload was (env, prod, RDONLY); the first handler got  *)
(* empty strings for all three fields, the second got the payload, and the  *)
(* event was acknowledged                                                   *)
C12_Witness ==
    /\ Passive /\ pc = "evt_get" /\ loopRet = "none"
    /\ event = "OnGuestPropertyChanged"
    /\ Len(notified) = 2
    /\ notified[1].name = "" /\ notified[1].value = "" /\ notified[1].flags = ""
    /\ notified[2].name = "env" /\ notified[2].value = "prod" /\ notified[2].flags = "RDONLY"
    /\ HasCall("EventProcessed")

(* the diff of an iteration whose snapshot equals the previous one is empty, *)
(* and every call of an iteration is for a key that differs between the two  *)
C13_State ==
    (Polling /\ pc = "poll_sleep") =>
        /\ properties = previousProperties => notified = <<>>
        /\ \A i \in 1..Len(notified) :
              \/ NewOrChanged(previousProperties, properties, notified[i].name)
              \/ Disappeared(previousProperties, properties, notified[i].name)
(* the end of an iteration makes its snapshot the previous one of the next *)
C13_Step ==
    (Polling /\ pc = "poll_sleep" /\ pc' = "poll_state") =>
        previousProperties' = properties

(* C13: each iteration of pollingLoop is compared with the snapshot of the  *)
(* iteration before it, so an iteration that enumerates the same snapshot   *)
(* again calls no handler, and a difference is notified in the iteration    *)
(* that first sees it and in no later one.                                  *)
C13_PollingIdempotence == [](C13_State) /\ [][C13_Step]_vars

(* C13 witness: the second iteration enumerated the snapshot of the first, *)
(* with a handler registered, and called nothing                          *)
C13_Witness ==
    /\ Polling /\ pc = "poll_sleep"
    /\ Len(queries) = 3
    /\ Len(eventHandlers) = 2
    /\ properties = previousProperties
    /\ DOMAIN properties = Keys
    /\ notified = <<>>

(* C19: a key present in both snapshots with the same value is not          *)
(* notified to any handler, whatever its timestamp and flags have become,   *)
(* in the first iteration and in every later one.                           *)
C19_ValueOnly ==
    (Polling /\ pc = "poll_sleep") =>
        \A k \in DOMAIN previousProperties \cap DOMAIN properties :
            previousProperties[k].Value = properties[k].Value =>
                \A h \in Handlers : CallsFor(h, k) = {}

(* C19 witness: in a later iteration a key kept its value while its        *)
(* timestamp and flags changed, and the registered handlers were not called *)
C19_Witness ==
    /\ Polling /\ pc = "poll_sleep"
    /\ Len(queries) = 3
    /\ Len(eventHandlers) = 2
    /\ "env" \in DOMAIN previousProperties \cap DOMAIN properties
    /\ previousProperties["env"].Value = "prod"
    /\ properties["env"].Value = "prod"
    /\ previousProperties["env"].Timestamp # properties["env"].Timestamp
    /\ previousProperties["env"].Flags # properties["env"].Flags
    /\ notified = <<>>

ReleasePcs ==
    {ReleaseSteps[i].at : i \in 1..Len(ReleaseSteps)} \cup {"rel_return", "rel_failed"}
ReleaseInvocations ==
    Cardinality({i \in 1..Len(relCalls) : relCalls[i].call = ReleaseSteps[1].call})
Terminated == rootPc \in {"exited", "panicked"}

(* C14: with --keep Release is never entered; without it, every exit of the *)
(* root command that got past NewVM has entered Release exactly once,       *)
(* whether Start, Run or Stop failed or not; and Release runs only when     *)
(* none of Start, Run and Stop is running or still to come.                 *)
C14_TeardownOnExit ==
    /\ keepVM => (relCalls = <<>> /\ rootPc \notin ReleasePcs)
    /\ ReleaseInvocations <= 1
    /\ (Terminated /\ isAdmin /\ ~keepVM) => ReleaseInvocations = 1
    /\ ~isAdmin => relCalls = <<>>
    /\ (rootPc \in ReleasePcs \/ relCalls # <<>>) =>
          /\ rootPc \in ReleasePcs \cup {"exited", "panicked"}
          /\ pc \in {"idle", "done"}
          /\ wg = 0

(* C14 witness: Start failed without --keep, and Release ran before the exit *)
C14_Witness ==
    /\ Terminated /\ ~keepVM
    /\ panicMsg = "Failed to start vm"
    /\ pc = "idle"
    /\ ReleaseInvocations = 1
    /\ relCalls[Len(relCalls)].call = "progress.Release"

FailedSteps == {i \in 1..Len(relCalls) : ~relCalls[i].ok}

(* C20: a failed step of Release is the last step Release makes, and its    *)
(* error is what Release returns and what the root command panics with;     *)
(* the steps before it all succeeded and keep their effect; after a failed  *)
(* session unlock nothing else of Release has been called.                  *)
C20_ReleaseStopsAtFirstFailure ==
    /\ \A i \in FailedSteps :
          /\ relCalls[i].call = TeardownOrder[i]
          /\ \A j \in 1..(i - 1) : relCalls[j].ok /\ relCalls[j].call = TeardownOrder[j]
          /\ \A j \in (i + 1)..Len(relCalls) : relCalls[j].call = "progress.Release"
          /\ relRet = relCalls[i].call
          /\ rootPc \in {"rel_failed", "panicked"}
          /\ rootPc = "panicked" => panicMsg = "Failed to release vm"
          /\ i > 1 => ~sessionLocked
          /\ i = 1 => (Len(relCalls) = 1 /\ sessionLocked = relCalls[1].locked)
    /\ relRet = "nil" => (FailedSteps = {} /\ Len(relCalls) = 8)
    /\ relRet \notin {"none", "nil"} => FailedSteps # {}

(* C20 witness: Launch failed, so the session was never locked; the unlock *)
(* of Release failed and Release returned with nothing else called         *)
C20_Witness ==
    /\ rootPc = "panicked" /\ panicMsg = "Failed to release vm"
    /\ relRet = "session.UnlockMachine"
    /\ relCalls = <<[call |-> "session.UnlockMachine", ok |-> FALSE, locked |-> FALSE]>>
    /\ ~sessionLocked

CallCount(c) == Cardinality({i \in 1..Len(hvCalls) : hvCalls[i].call = c})
Delivered == event # "nil"
LeftByContinuing == pc = "evt_get" /\ loopRet = "none"
LeftByReturning == pc \in {"evt_unwind", "go_ret", "done"}

(* C16: a delivered event is acknowledged at most once, after its dispatch, *)
(* and released at most once, after its acknowledgment; when the loop is    *)
(* back at GetEvent the event has been acknowledged and released; and when  *)
(* the loop has returned, the event it had been delivered has been released. *)
C16_AckProtocol ==
    (Passive /\ Delivered) =>
        /\ CallCount("EventProcessed") <= 1
        /\ CallCount("event.Release") <= 1
        /\ HasCall("EventProcessed") =>
              /\ pc \notin {"evt_type", "evt_state", "evt_switch", "evt_fan", "evt_check"}
              /\ event = "OnGuestPropertyChanged" => Len(notified) = Len(eventHandlers)
        /\ \A i \in 1..Len(hvCalls) :
              hvCalls[i].call = "event.Release" =>
                  (i > 1 /\ hvCalls[i - 1] = HvCall("EventProcessed", TRUE))
        /\ LeftByContinuing => (HasCall("EventProcessed") /\ HasCall("event.Release"))
        /\ LeftByReturning => HasCall("event.Release")

(* the call that signals the deletion of the property named k to handler h *)
DeletionCall(h, k) == Call(h, k, "", 0, "")

(* C17: in an iteration of pollingLoop no handler receives, for a key that  *)
(* is present in the current snapshot, the call (name, "", 0, "") that      *)
(* signals a deletion.                                                      *)
C17_AbsenceVsEmpty ==
    (Polling /\ pc = "poll_sleep") =>
        \A i \in 1..Len(notified) :
            notified[i].name \in DOMAIN properties =>
                notified[i] # DeletionCall(notified[i].h, notified[i].name)

RegisterIndex == CHOOSE i \in 1..Len(CreateSteps) : CreateSteps[i].call = "machine.Register"
(* Create returned the error of a call it made after machine.Register *)
FailedAfterRegister ==
    \E i \in (RegisterIndex + 1)..Len(CreateSteps) : createRet = CreateSteps[i].call

(* C15: Create undoes nothing when it fails, and once Release has returned  *)
(* nil after a Create that failed past machine.Register, the machine is no  *)
(* longer registered and the session of Create holds no lock.               *)
C15_ProvisioningCleanup ==
    /\ (FailedAfterRegister /\ rootPc = "create_return") => registered
    /\ (FailedAfterRegister /\ relRet = "nil") => (~registered /\ ~provLocked)

Iterating == pc \in {"poll_fan_changed", "poll_fan_deleted", "evt_fan"}
(* no append to eventHandlers is under way while the monitor iterates over it *)
C18_State == ~(registering # "" /\ Iterating)
(* the monitor's read of eventHandlers sees every registration made so far *)
C18_Step == (~Iterating /\ Iterating') => ranged' = eventHandlers

(* C18: RegisterEventHandler and the monitor's iteration over eventHandlers *)
(* never overlap, and the iteration for a change visits every handler       *)
(* registered by the time the change is detected.                           *)
C18_RegistryExclusion == [](C18_State) /\ [][C18_Step]_vars
====
